---------------------------- MODULE Spec2Model ----------------------------
(***************************************************************************)
(* Model of the data_anonymizer scripts:                                   *)
(*   anonymize_2.py       Value Anonymizer        (anonymize_value,        *)
(*                                                 process_file)           *)
(*   encode_search.py     Search-Term Encoder     (encode)                 *)
(*   search_anonymized.py Anonymized-Data Search  (encode_search_term,     *)
(*                                                 search_csv,             *)
(*                                                 search_contains)        *)
(*   combine_csv.py       CSV Unifier             (get_unified_columns,    *)
(*                                                 read_csv_data,          *)
(*                                                 combine_csv_files)      *)
(*                                                                         *)
(* A Python str is a sequence of one-character strings, so that strip(),   *)
(* lower(), split() and slicing are computed and not assumed.              *)
(***************************************************************************)
EXTENDS Integers, Sequences, FiniteSets, TLC

VARIABLES
    \* encode_search.py / anonymize_2.py / search_anonymized.py: the encoders
    value,            \* raw value handed to the encoders
    search_term,      \* second raw value handed to the encoders
    anonymized,       \* anonymize_value() of both inputs
    encoded,          \* encode() of both inputs
    encoded_search,   \* encode_search_term() of both inputs
    called,           \* which of the three functions have returned
    \* anonymize_2.py: process_file
    input_text,       \* content of input_file, as stored
    input_exists,     \* whether input_file exists
    output_file,      \* TRUE when an output file was named, FALSE for stdout
    lines,            \* f.readlines()
    anonymized_lines, \* the list process_file accumulates
    written,          \* what went to the output file or to stdout
    anon_pc,          \* "idle", "open", "loop", "done", "exit1"
    \* search_anonymized.py: search_csv, search_contains
    csv_file,         \* the anonymized CSV: [header, rows] as csv.reader yields them
    search_op,        \* "idle", "none", "search_csv", "search_contains"
    column,           \* search_csv: the column searched
    term,             \* search_csv: the raw search term
    search_queries,   \* search_contains: column -> raw term, in insertion order
    matches,          \* the list the search returns
    \* combine_csv.py: combine_csv_files
    dir_files,        \* the source *.csv files of INPUT_FOLDER, in discovery order
    out_file,         \* INPUT_FOLDER/out.csv: <<>> when absent, <<file>> when present
    csv_pc,           \* "idle", "start", "glob", "columns", "process", "done"
    csv_files,        \* glob.glob(csv_pattern)
    column_mapping,   \* OrderedDict: normalized column name -> first spelling seen
    all_data,         \* the Dataset
    file_idx,         \* position of the loop over csv_files (line 146)
    file_data,        \* what read_csv_data returned for the last file processed
    added,            \* per file processed: the rows it contributed
    reported,         \* files whose read error was printed in the projection phase
    stop,             \* how the run ended: "no_files", "no_columns", "no_data", "written"
    run,              \* number of the current run of combine_csv_files
    out_before,       \* out_file as the current run found it
    prev_output       \* out_file as the previous run left it

encVars == <<value, search_term, anonymized, encoded, encoded_search, called>>

anonVars == <<input_text, input_exists, output_file, lines, anonymized_lines,
              written, anon_pc>>

searchVars == <<csv_file, search_op, column, term, search_queries, matches>>

csvVars == <<dir_files, out_file, csv_pc, csv_files, column_mapping, all_data,
             file_idx, file_data, added, reported, stop, run, out_before,
             prev_output>>

vars == <<encVars, anonVars, searchVars, csvVars>>

-----------------------------------------------------------------------------
(* Bounds of the model *)

\* most source CSV files in the input folder
MaxFiles == 2

\* runs of combine_csv_files on the same folder
MaxRuns == 2

\* most data rows of the anonymized CSV that is searched
MaxSearchRows == 2

\* longest input file of the Value Anonymizer, in characters
MaxTextLen == 4

\* longest raw value handed to the encoders
MaxTermLen == 2

-----------------------------------------------------------------------------
(* Python str primitives *)

\* the characters str.strip() removes, among those the model uses
IsSpace(c) == c \in {" ", "\t", "\n", "\r"}

\* str.lower() on one character
LowerChar(c) ==
    CASE c = "A" -> "a"
      [] c = "B" -> "b"
      [] c = "N" -> "n"
      [] OTHER   -> c

\* str.lower()
Lower(s) == [i \in 1..Len(s) |-> LowerChar(s[i])]

RECURSIVE LStrip(_)
\* str.lstrip()
LStrip(s) == IF s # <<>> /\ IsSpace(Head(s)) THEN LStrip(Tail(s)) ELSE s

RECURSIVE RStrip(_)
\* str.rstrip()
RStrip(s) ==
    IF s # <<>> /\ IsSpace(s[Len(s)]) THEN RStrip(SubSeq(s, 1, Len(s) - 1)) ELSE s

\* str.strip()
Strip(s) == RStrip(LStrip(s))

RECURSIVE RStripChars(_, _)
\* str.rstrip(chars)
RStripChars(s, chars) ==
    IF s # <<>> /\ s[Len(s)] \in chars
    THEN RStripChars(SubSeq(s, 1, Len(s) - 1), chars)
    ELSE s

RECURSIVE Split(_, _)
\* str.split(sep) for a one-character sep: always at least one part
Split(s, sep) ==
    IF \A i \in 1..Len(s) : s[i] # sep THEN <<s>>
    ELSE LET k == CHOOSE i \in 1..Len(s) :
                      s[i] = sep /\ \A j \in 1..(i - 1) : s[j] # sep
         IN  <<SubSeq(s, 1, k - 1)>> \o Split(SubSeq(s, k + 1, Len(s)), sep)

RECURSIVE Join(_, _)
\* sep.join(parts)
Join(parts, sep) ==
    IF parts = <<>> THEN <<>>
    ELSE IF Len(parts) = 1 THEN parts[1]
    ELSE parts[1] \o <<sep>> \o Join(Tail(parts), sep)

RECURSIVE universal_newlines(_)
\* open(..., 'r') with newline=None: "\r\n" and "\r" are read as "\n"
universal_newlines(s) ==
    IF s = <<>> THEN <<>>
    ELSE IF s[1] = "\r"
    THEN IF Len(s) >= 2 /\ s[2] = "\n"
         THEN <<"\n">> \o universal_newlines(SubSeq(s, 3, Len(s)))
         ELSE <<"\n">> \o universal_newlines(Tail(s))
    ELSE <<s[1]>> \o universal_newlines(Tail(s))

RECURSIVE readlines(_)
\* f.readlines(): the lines of the decoded text, each with its terminator
readlines(s) ==
    IF s = <<>> THEN <<>>
    ELSE IF \A i \in 1..Len(s) : s[i] # "\n" THEN <<s>>
    ELSE LET k == CHOOSE i \in 1..Len(s) :
                      s[i] = "\n" /\ \A j \in 1..(i - 1) : s[j] # "\n"
         IN  <<SubSeq(s, 1, k)>> \o readlines(SubSeq(s, k + 1, Len(s)))

\* s[:n]
Prefix(s, n) == SubSeq(s, 1, IF n < Len(s) THEN n ELSE Len(s))

\* all strings over chars of length at most n
RECURSIVE StringsUpTo(_, _)
StringsUpTo(chars, n) ==
    IF n = 0 THEN {<<>>}
    ELSE LET shorter == StringsUpTo(chars, n - 1)
         IN  shorter \cup {Append(s, c) : s \in {t \in shorter : Len(t) = n - 1}, c \in chars}

-----------------------------------------------------------------------------
(* Python values and dicts                                                 *)
(* A value is a str, None, a list of str or an int; the record has the     *)
(* same fields for each so that values of different types compare unequal. *)
(* A dict is the sequence of its items in insertion order, keys unique.    *)

Str(s) == [kind |-> "str", s |-> s, items |-> <<>>, n |-> 0]

None == [kind |-> "None", s |-> <<>>, items |-> <<>>, n |-> 0]

List(l) == [kind |-> "list", s |-> <<>>, items |-> l, n |-> 0]

PyInt(i) == [kind |-> "int", s |-> <<>>, items |-> <<>>, n |-> i]

\* key in d
DictHas(d, key) == \E i \in 1..Len(d) : d[i].k = key

\* d.get(key): None when the key is missing
DictGet(d, key) ==
    IF DictHas(d, key) THEN d[CHOOSE i \in 1..Len(d) : d[i].k = key].val ELSE None

\* d[key] = val: a new key goes last, a known key keeps its place
DictSet(d, key, val) ==
    IF DictHas(d, key)
    THEN [i \in 1..Len(d) |-> IF d[i].k = key THEN [k |-> key, val |-> val] ELSE d[i]]
    ELSE Append(d, [k |-> key, val |-> val])

\* val in d.values()
InValues(d, val) == \E i \in 1..Len(d) : d[i].val = val

RECURSIVE DictZip(_, _, _)
\* dict(zip(keys, vals)) added to d
DictZip(d, keys, vals) ==
    IF keys = <<>> \/ vals = <<>> THEN d
    ELSE DictZip(DictSet(d, Str(Head(keys)), Str(Head(vals))), Tail(keys), Tail(vals))

RECURSIVE DictFill(_, _, _)
\* for key in keys: d[key] = val
DictFill(d, keys, val) ==
    IF keys = <<>> THEN d
    ELSE DictFill(DictSet(d, Str(Head(keys)), val), Tail(keys), val)

\* csv.DictReader.__next__ for one non-empty row: cells beyond the header go
\* to the key None (restkey) as a list, missing cells are None (restval)
DictReaderRow(fieldnames, row) ==
    LET lf == Len(fieldnames)
        lr == Len(row)
        d  == DictZip(<<>>, fieldnames, row)
    IN  IF lf < lr THEN DictSet(d, None, List(SubSeq(row, lf + 1, lr)))
        ELSE IF lf > lr THEN DictFill(d, SubSeq(fieldnames, lr + 1, lf), None)
        ELSE d

RECURSIVE NonEmptyRows(_)
\* csv.DictReader skips the rows csv.reader yields as []
NonEmptyRows(rows) ==
    IF rows = <<>> THEN <<>>
    ELSE IF Head(rows) = <<>> THEN NonEmptyRows(Tail(rows))
    ELSE <<Head(rows)>> \o NonEmptyRows(Tail(rows))

\* list(csv.DictReader(f)): the first row read is the header
DictReader(header, rows) ==
    LET body == NonEmptyRows(rows)
    IN  [i \in 1..Len(body) |-> DictReaderRow(header, body[i])]

-----------------------------------------------------------------------------
(* combine_csv.py                                                          *)
(* A CSV file is [header, rows, fail]: the first row and the following     *)
(* rows as csv.reader yields them, and how reading it ends:                *)
(*   "ok"      every row is read                                           *)
(*   "header"  open() or the read of the first row raises                  *)
(*   "body"    the first row and the rows listed are read, and the read    *)
(*             of what follows raises (a byte the detected encoding        *)
(*             cannot decode in a later block, a csv.Error)                *)

\* str(x) for a str or None
PyStr(x) == IF x.kind = "None" THEN <<"N", "o", "n", "e">> ELSE x.s

\* normalize_column_name(col_name)
normalize_column_name(col_name) == Strip(Lower(PyStr(col_name)))

RECURSIVE register_columns_last(_, _)
\* the loop over header cells with the membership test left out: the last
\* spelling seen replaces the first
register_columns_last(mapping, header) ==
    IF header = <<>> THEN mapping
    ELSE LET col == Head(header)
             normalized == normalize_column_name(Str(col))
         IN  register_columns_last(DictSet(mapping, Str(normalized), Str(col)), Tail(header))

RECURSIVE register_columns(_, _)
\* lines 58-61: the loop over the cells of one header
register_columns(mapping, header) ==
    IF header = <<>> THEN mapping
    ELSE LET col == Head(header)
             normalized == normalize_column_name(Str(col))
         IN  register_columns(
                 IF ~DictHas(mapping, Str(normalized))
                 THEN DictSet(mapping, Str(normalized), Str(col))
                 ELSE mapping,
                 Tail(header))

RECURSIVE unified_columns_from(_, _)
\* lines 50-64: the loop over csv_files
unified_columns_from(mapping, files) ==
    IF files = <<>> THEN mapping
    ELSE LET f == Head(files)
         IN  unified_columns_from(
                 IF f.fail = "header" THEN mapping
                 ELSE IF f.header # <<>> THEN register_columns(mapping, f.header)
                 ELSE mapping,
                 Tail(files))

\* get_unified_columns(csv_files)
get_unified_columns(files) == unified_columns_from(<<>>, files)

\* value or ""
OrEmpty(val) ==
    IF val = None \/ val = Str(<<>>) \/ val = List(<<>>) THEN Str(<<>>) ELSE val

RECURSIVE overlay(_, _, _)
\* lines 92-96: the loop over row.items()
overlay(unified_row, items, mapping) ==
    IF items = <<>> THEN unified_row
    ELSE LET original_col == Head(items).k
             val == Head(items).val
             normalized == normalize_column_name(original_col)
         IN  overlay(
                 IF DictHas(mapping, Str(normalized))
                 THEN DictSet(unified_row, DictGet(mapping, Str(normalized)), OrEmpty(val))
                 ELSE unified_row,
                 Tail(items), mapping)

\* lines 85-96: one row of the file projected on the unified columns
unify_row(row, mapping) ==
    LET blank == DictFill(<<>>, [i \in 1..Len(mapping) |-> mapping[i].val.s], Str(<<>>))
    IN  overlay(blank, row, mapping)

\* read_csv_data(csv_file, column_mapping): the rows appended to data before
\* the read ends or raises
read_csv_data(f, mapping) ==
    IF f.fail = "header" THEN <<>>
    ELSE LET rows == DictReader(f.header, f.rows)
         IN  [i \in 1..Len(rows) |-> unify_row(rows[i], mapping)]

\* str(list of str), as csv.writer writes a cell that is a list
PyRepr(l) ==
    LET quoted == [i \in 1..Len(l) |-> <<"'">> \o l[i] \o <<"'">>]
        RECURSIVE commas(_)
        commas(q) == IF q = <<>> THEN <<>>
                     ELSE IF Len(q) = 1 THEN q[1]
                     ELSE q[1] \o <<",", " ">> \o commas(Tail(q))
    IN  <<"[">> \o commas(quoted) \o <<"]">>

\* the text csv.writer writes for a cell
Render(val) ==
    IF val.kind = "list" THEN PyRepr(val.items)
    ELSE IF val.kind = "None" THEN <<>>
    ELSE val.s

\* line 184: list(column_mapping.values())
unified_columns(mapping) == [i \in 1..Len(mapping) |-> mapping[i].val.s]

\* lines 187-190: the file DictWriter writes
write_csv(mapping, data) ==
    LET fieldnames == unified_columns(mapping)
    IN  [header |-> fieldnames,
         rows   |-> [r \in 1..Len(data) |->
                        [c \in 1..Len(fieldnames) |->
                            Render(IF DictHas(data[r], Str(fieldnames[c]))
                                   THEN DictGet(data[r], Str(fieldnames[c]))
                                   ELSE Str(<<>>))]],
         fail   |-> "ok"]

\* lines 114-116 left out: an existing out.csv stays in the folder
remove_existing_skipped(existing) == existing

\* lines 114-116: os.remove(output_path) when it exists
remove_existing(existing) == <<>>

\* lines 119-120: every *.csv of the folder; out.csv matches the pattern
glob(sources, existing) == sources \o existing

-----------------------------------------------------------------------------
(* hashlib.sha256(...).hexdigest()                                         *)
(* hashlib is a library, not code of the repository.  The model keeps what *)
(* the scripts rely on: the digest is a function of the bytes hashed and   *)
(* is DIGEST_LEN lowercase hex digits.  The digits are those of a small    *)
(* rolling checksum, not of SHA-256.                                       *)

DIGEST_LEN == 64

HexDigits == <<"0","1","2","3","4","5","6","7","8","9","a","b","c","d","e","f">>

IsHex(s) == \A i \in 1..Len(s) : \E k \in 1..16 : s[i] = HexDigits[k]

CharCode(c) ==
    CASE c = " "  -> 32
      [] c = "#"  -> 35
      [] c = "\n" -> 10
      [] c = "\r" -> 13
      [] c = "\t" -> 9
      [] c = "a"  -> 97
      [] c = "b"  -> 98
      [] c = "n"  -> 110
      [] c = "A"  -> 65
      [] c = "B"  -> 66
      [] c = "N"  -> 78
      [] OTHER    -> 63

RECURSIVE Checksum(_)
Checksum(s) ==
    IF s = <<>> THEN 5381
    ELSE (Checksum(SubSeq(s, 1, Len(s) - 1)) * 33 + CharCode(s[Len(s)])) % 65521

sha256_hexdigest(s) ==
    LET h == Checksum(s)
    IN  [i \in 1..DIGEST_LEN |-> HexDigits[((h + i * ((h % 7) + 1) + i * i) % 16) + 1]]

-----------------------------------------------------------------------------
(* anonymize_2.py *)

\* anonymize_value without the strip(): surrounding blanks reach the hash
anonymize_value_nostrip(v) == sha256_hexdigest(Lower(v))

\* anonymize_value(value)
anonymize_value(v) == sha256_hexdigest(Lower(Strip(v)))

\* the loop body of process_file with the blank test made on line.strip()
anonymize_line_strip(line0) ==
    LET line == RStripChars(line0, {"\n", "\r"})
    IN  IF Strip(line) = <<>> THEN <<>>
        ELSE LET parts == Split(line, "#")
                 anonymized_parts == [i \in 1..Len(parts) |-> anonymize_value(parts[i])]
             IN  Join(anonymized_parts, "#")

\* the loop body of process_file: one line of the input to one line of output
anonymize_line(line0) ==
    LET line == RStripChars(line0, {"\n", "\r"})
    IN  IF line = <<>> THEN <<>>
        ELSE LET parts == Split(line, "#")
                 anonymized_parts == [i \in 1..Len(parts) |-> anonymize_value(parts[i])]
             IN  Join(anonymized_parts, "#")

RECURSIVE write_lines(_)
\* f.write(line + '\n') / print(line) for each line
write_lines(ls) ==
    IF ls = <<>> THEN <<>> ELSE ls[1] \o <<"\n">> \o write_lines(Tail(ls))

-----------------------------------------------------------------------------
(* encode_search.py *)

HASH_LENGTH == 16

\* encode without the lower(): the digest depends on letter case
encode_nolower(raw) ==
    IF raw = <<>> \/ Strip(raw) = <<>> THEN <<>>
    ELSE Prefix(sha256_hexdigest(Strip(raw)), HASH_LENGTH)

\* encode(search_term)
encode(raw) ==
    IF raw = <<>> \/ Strip(raw) = <<>> THEN <<>>
    ELSE LET processed_value == Lower(Strip(raw))
         IN  Prefix(sha256_hexdigest(processed_value), HASH_LENGTH)

-----------------------------------------------------------------------------
(* search_anonymized.py *)

SEARCH_HASH_LENGTH == 16

\* encode_search_term(search_term)
encode_search_term(raw) ==
    IF raw = <<>> \/ Strip(raw) = <<>> THEN <<>>
    ELSE LET processed_value == Lower(Strip(raw))
         IN  Prefix(sha256_hexdigest(processed_value), SEARCH_HASH_LENGTH)

\* the key '_row_number'
ROW_NUMBER == <<"_", "r", "o", "w", "_", "n", "u", "m", "b", "e", "r">>

\* row['_row_number'] = row_num
Annotate(row, row_num) == DictSet(row, Str(ROW_NUMBER), PyInt(row_num))

RECURSIVE search_csv_from(_, _, _, _)
\* the loop of search_csv from row row_num on
search_csv_from(rows, row_num, col, encoded_term) ==
    IF row_num > Len(rows) THEN <<>>
    ELSE (IF DictGet(rows[row_num], Str(col)) = Str(encoded_term)
          THEN <<Annotate(rows[row_num], row_num)>>
          ELSE <<>>)
         \o search_csv_from(rows, row_num + 1, col, encoded_term)

\* search_csv with enumerate(reader) counting from 0
search_csv_from0(file, col, raw) ==
    LET encoded_term == encode_search_term(raw)
        rows == DictReader(file.header, file.rows)
        found == search_csv_from(rows, 1, col, encoded_term)
    IN  [i \in 1..Len(found) |->
            DictSet(found[i], Str(ROW_NUMBER),
                    PyInt(DictGet(found[i], Str(ROW_NUMBER)).n - 1))]

\* search_csv(csv_file, column, search_term)
search_csv(file, col, raw) ==
    LET encoded_term == encode_search_term(raw)
    IN  search_csv_from(DictReader(file.header, file.rows), 1, col, encoded_term)

\* encoded_queries: every term of search_queries encoded
encode_queries(queries) ==
    [i \in 1..Len(queries) |->
        [k |-> queries[i].k, val |-> Str(encode_search_term(queries[i].val.s))]]

\* one pass of the test in the inner loop of search_contains
query_matches(row, query) ==
    IF query.k = Str(<<"*">>)
    THEN InValues(row, query.val)
    ELSE DictGet(row, query.k) = query.val

RECURSIVE row_matches_nobreak(_, _, _)
\* the inner loop of search_contains without its break statements
row_matches_nobreak(row, encoded_queries, i) ==
    IF i > Len(encoded_queries) THEN <<>>
    ELSE (IF query_matches(row, encoded_queries[i]) THEN <<row>> ELSE <<>>)
         \o row_matches_nobreak(row, encoded_queries, i + 1)

RECURSIVE row_matches_from(_, _, _)
\* the inner loop of search_contains from query i on: the appended copies of
\* the row (the break leaves the loop at the first query that matches)
row_matches_from(row, encoded_queries, i) ==
    IF i > Len(encoded_queries) THEN <<>>
    ELSE IF query_matches(row, encoded_queries[i]) THEN <<row>>
    ELSE row_matches_from(row, encoded_queries, i + 1)

RECURSIVE search_contains_from(_, _, _)
\* the outer loop of search_contains from row row_num on
search_contains_from(rows, row_num, encoded_queries) ==
    IF row_num > Len(rows) THEN <<>>
    ELSE LET hit == row_matches_from(rows[row_num], encoded_queries, 1)
         IN  [i \in 1..Len(hit) |-> Annotate(hit[i], row_num)]
             \o search_contains_from(rows, row_num + 1, encoded_queries)

\* search_contains(csv_file, search_queries)
search_contains(file, queries) ==
    search_contains_from(DictReader(file.header, file.rows), 1, encode_queries(queries))

-----------------------------------------------------------------------------
(* Specification SpecEnc: the three encoders applied to a pair of raw values *)

TermChars == {"a", "A", "b", " "}

Terms == StringsUpTo(TermChars, MaxTermLen)

Both(f_value, f_term) == [v |-> f_value, w |-> f_term]

IdleEnc ==
    /\ value = <<>>
    /\ search_term = <<>>
    /\ anonymized = Both(<<>>, <<>>)
    /\ encoded = Both(<<>>, <<>>)
    /\ encoded_search = Both(<<>>, <<>>)
    /\ called = {}

IdleAnon ==
    /\ input_text = <<>>
    /\ input_exists = FALSE
    /\ output_file = FALSE
    /\ lines = <<>>
    /\ anonymized_lines = <<>>
    /\ written = <<>>
    /\ anon_pc = "idle"

IdleSearch ==
    /\ csv_file = [header |-> <<>>, rows |-> <<>>]
    /\ search_op = "idle"
    /\ column = <<>>
    /\ term = <<>>
    /\ search_queries = <<>>
    /\ matches = <<>>

IdleCsv ==
    /\ dir_files = <<>>
    /\ out_file = <<>>
    /\ csv_pc = "idle"
    /\ csv_files = <<>>
    /\ column_mapping = <<>>
    /\ all_data = <<>>
    /\ file_idx = 0
    /\ file_data = <<>>
    /\ added = <<>>
    /\ reported = {}
    /\ stop = ""
    /\ run = 0
    /\ out_before = <<>>
    /\ prev_output = <<>>

InitEnc ==
    /\ IdleAnon
    /\ IdleSearch
    /\ IdleCsv
    /\ value \in Terms
    /\ search_term \in Terms
    /\ anonymized = Both(<<>>, <<>>)
    /\ encoded = Both(<<>>, <<>>)
    /\ encoded_search = Both(<<>>, <<>>)
    /\ called = {}

AnonymizeValue ==
    /\ "anonymize_value" \notin called
    /\ anonymized' = Both(anonymize_value(value), anonymize_value(search_term))
    /\ called' = called \cup {"anonymize_value"}
    /\ UNCHANGED <<value, search_term, encoded, encoded_search>>
    /\ UNCHANGED <<anonVars, searchVars, csvVars>>

Encode ==
    /\ "encode" \notin called
    /\ encoded' = Both(encode(value), encode(search_term))
    /\ called' = called \cup {"encode"}
    /\ UNCHANGED <<value, search_term, anonymized, encoded_search>>
    /\ UNCHANGED <<anonVars, searchVars, csvVars>>

EncodeSearchTerm ==
    /\ "encode_search_term" \notin called
    /\ encoded_search' = Both(encode_search_term(value), encode_search_term(search_term))
    /\ called' = called \cup {"encode_search_term"}
    /\ UNCHANGED <<value, search_term, anonymized, encoded>>
    /\ UNCHANGED <<anonVars, searchVars, csvVars>>

NextEnc == AnonymizeValue \/ Encode \/ EncodeSearchTerm

SpecEnc == InitEnc /\ [][NextEnc]_vars

-----------------------------------------------------------------------------
(* Claims on the encoders, checked under SpecEnc *)

\* trim + lowercase, in the order the specification's words give them
TrimLower(s) == Strip(Lower(s))

IsBlank(s) == \A i \in 1..Len(s) : IsSpace(s[i])

EncoderResultOk(raw, enc) ==
    IF IsBlank(raw) THEN enc = <<>> ELSE Len(enc) = 16 /\ IsHex(enc)

\* C6: encode depends only on the trim+lowercase normalization of its input:
\* two inputs equal after trimming and lowercasing encode identically; a
\* blank input encodes to the empty string and any other input to exactly 16
\* hex characters; encode and encode_search_term agree on every input.
C6_EncodeNormalized ==
    {"encode", "encode_search_term"} \subseteq called =>
        /\ TrimLower(value) = TrimLower(search_term) => encoded.v = encoded.w
        /\ EncoderResultOk(value, encoded.v)
        /\ EncoderResultOk(search_term, encoded.w)
        /\ encoded_search = encoded

\* two raw values that differ in case and surrounding blanks only have been
\* encoded by both encoders
C6_Witness ==
    /\ {"encode", "encode_search_term"} \subseteq called
    /\ value # search_term
    /\ TrimLower(value) = TrimLower(search_term)
    /\ ~IsBlank(value)
    /\ Len(encoded.w) = 16

\* C7: the anonymizer's digest of any value never equals the encoder's output
\* for any value (64 characters against 16 or none), and for a non-blank
\* value the encoder's output is the first 16 characters of the digest.
C7_DigestNeverEqualsEncoded ==
    {"anonymize_value", "encode"} \subseteq called =>
        /\ Len(anonymized.v) = 64 /\ Len(anonymized.w) = 64
        /\ \A d \in {anonymized.v, anonymized.w} : \A e \in {encoded.v, encoded.w} : d # e
        /\ ~IsBlank(value) => encoded.v = SubSeq(anonymized.v, 1, 16)
        /\ ~IsBlank(search_term) => encoded.w = SubSeq(anonymized.w, 1, 16)

\* the same non-blank value, padded with blanks, went through both scripts
C7_Witness ==
    /\ {"anonymize_value", "encode"} \subseteq called
    /\ ~IsBlank(value)
    /\ value # Strip(value)
    /\ IsBlank(search_term)
    /\ encoded.v = SubSeq(anonymized.v, 1, 16)

-----------------------------------------------------------------------------
(* Specification SpecAnon: process_file(input_file, output_file) *)

AnonChars == {"a", "A", " ", "#", "\n", "\r"}

InitAnon ==
    /\ IdleEnc
    /\ IdleSearch
    /\ IdleCsv
    /\ input_exists \in BOOLEAN
    /\ input_text \in (IF input_exists THEN StringsUpTo(AnonChars, MaxTextLen) ELSE {<<>>})
    /\ output_file \in BOOLEAN
    /\ lines = <<>>
    /\ anonymized_lines = <<>>
    /\ written = <<>>
    /\ anon_pc = "open"

\* lines 12-15: open and read the whole file
ReadLines ==
    /\ anon_pc = "open"
    /\ input_exists
    /\ lines' = readlines(universal_newlines(input_text))
    /\ anonymized_lines' = <<>>
    /\ anon_pc' = "loop"
    /\ UNCHANGED <<input_text, input_exists, output_file, written>>
    /\ UNCHANGED <<encVars, searchVars, csvVars>>

\* lines 36-38: the input file is missing
FileNotFound ==
    /\ anon_pc = "open"
    /\ ~input_exists
    /\ anon_pc' = "exit1"
    /\ UNCHANGED <<input_text, input_exists, output_file, lines, anonymized_lines, written>>
    /\ UNCHANGED <<encVars, searchVars, csvVars>>

\* lines 17-26: one turn of the loop over lines
ProcessLine ==
    /\ anon_pc = "loop"
    /\ Len(anonymized_lines) < Len(lines)
    /\ anonymized_lines' =
           Append(anonymized_lines, anonymize_line(lines[Len(anonymized_lines) + 1]))
    /\ UNCHANGED <<input_text, input_exists, output_file, lines, written, anon_pc>>
    /\ UNCHANGED <<encVars, searchVars, csvVars>>

\* lines 28-34: write every anonymized line, to the file or to stdout
WriteOutput ==
    /\ anon_pc = "loop"
    /\ Len(anonymized_lines) = Len(lines)
    /\ written' = write_lines(anonymized_lines)
    /\ anon_pc' = "done"
    /\ UNCHANGED <<input_text, input_exists, output_file, lines, anonymized_lines>>
    /\ UNCHANGED <<encVars, searchVars, csvVars>>

NextAnon == ReadLines \/ FileNotFound \/ ProcessLine \/ WriteOutput

SpecAnon == InitAnon /\ [][NextAnon]_vars

-----------------------------------------------------------------------------
(* Specification SpecSearch: one search over an anonymized CSV *)

\* sequences over S of length at most n
RECURSIVE SeqsUpTo(_, _)
SeqsUpTo(S, n) ==
    IF n = 0 THEN {<<>>}
    ELSE LET shorter == SeqsUpTo(S, n - 1)
         IN  shorter \cup {Append(q, x) : q \in {t \in shorter : Len(t) = n - 1}, x \in S}

ColA == <<"a">>
ColB == <<"b">>
ColMissing == <<"n">>
Wildcard == <<"*">>

\* header rows: none, one column, two columns, the same column twice
SearchHeaders == {<<>>, <<ColA>>, <<ColA, ColB>>, <<ColA, ColA>>}

\* cells: a truncated digest, the empty string, and (in one row) a full digest
CellA == encode_search_term(<<"a">>)
CellEmpty == <<>>
CellFull == anonymize_value(<<"a">>)

\* rows of zero (a blank line), one and two cells
SearchRows == SeqsUpTo({CellA, CellEmpty}, 2) \cup {<<CellFull, CellA>>}

SearchTerms == {<<"a">>, <<" ", "A">>, <<"b">>, <<" ">>}

QueryItems ==
    {[k |-> Str(c), val |-> Str(t)] :
        c \in {Wildcard, ColA, ColB}, t \in {<<"a">>, <<"b">>, <<" ">>}}

\* search_queries: a dict of at most two items
QueryMappings ==
    {<<>>} \cup {<<q>> : q \in QueryItems}
           \cup {pq \in QueryItems \X QueryItems : pq[1].k # pq[2].k}

InitSearch ==
    /\ IdleEnc
    /\ IdleAnon
    /\ IdleCsv
    /\ csv_file \in [header : SearchHeaders, rows : SeqsUpTo(SearchRows, MaxSearchRows)]
    /\ search_op = "none"
    /\ column = <<>>
    /\ term = <<>>
    /\ search_queries = <<>>
    /\ matches = <<>>

\* a call of search_csv(csv_file, column, search_term)
SearchCsv ==
    /\ search_op = "none"
    /\ \E col \in {ColA, ColB, ColMissing}, raw \in SearchTerms :
          /\ column' = col
          /\ term' = raw
          /\ matches' = search_csv(csv_file, col, raw)
    /\ search_op' = "search_csv"
    /\ UNCHANGED <<csv_file, search_queries>>
    /\ UNCHANGED <<encVars, anonVars, csvVars>>

\* a call of search_contains(csv_file, search_queries)
SearchContains ==
    /\ search_op = "none"
    /\ \E queries \in QueryMappings :
          /\ search_queries' = queries
          /\ matches' = search_contains(csv_file, queries)
    /\ search_op' = "search_contains"
    /\ UNCHANGED <<csv_file, column, term>>
    /\ UNCHANGED <<encVars, anonVars, csvVars>>

NextSearch == SearchCsv \/ SearchContains

SpecSearch == InitSearch /\ [][NextSearch]_vars

-----------------------------------------------------------------------------
(* Claims on the Anonymized-Data Search, checked under SpecSearch *)

\* the data rows of the CSV as row associations, numbered from 1
DataRows == DictReader(csv_file.header, csv_file.rows)

RowNumber(m) == DictGet(m, Str(ROW_NUMBER)).n

\* matches is the sequence of the data rows numbered in hits, in file order,
\* each carrying its 1-based row number
IsSelection(hits) ==
    /\ Len(matches) = Cardinality(hits)
    /\ \A i \in 1..Len(matches) :
          /\ RowNumber(matches[i]) \in hits
          /\ DictGet(matches[i], Str(ROW_NUMBER)).kind = "int"
          /\ \A j \in 1..Len(DataRows[RowNumber(matches[i])]) :
                LET item == DataRows[RowNumber(matches[i])][j]
                IN  DictGet(matches[i], item.k) = item.val
          /\ Len(matches[i]) = Len(DataRows[RowNumber(matches[i])]) + 1
    /\ \A i, j \in 1..Len(matches) :
          i < j => RowNumber(matches[i]) < RowNumber(matches[j])

\* the cell of a row in a named column is the string cell_text
CellIs(row, col, cell_text) ==
    \E i \in 1..Len(row) :
        row[i].k = Str(col) /\ row[i].val.kind = "str" /\ row[i].val.s = cell_text

\* some cell of a row is the string cell_text
AnyCellIs(row, cell_text) ==
    \E i \in 1..Len(row) : row[i].val.kind = "str" /\ row[i].val.s = cell_text

\* C8: search_csv returns exactly the data rows whose cell in the named column
\* equals the encoded term, in file order, each with its 1-based data-row
\* number; a term that is not present, or a column that does not exist,
\* gives the empty sequence.
C8_SearchCsvExact ==
    search_op = "search_csv" =>
        LET hits == {r \in 1..Len(DataRows) :
                        CellIs(DataRows[r], column, encode_search_term(term))}
        IN  /\ IsSelection(hits)
            /\ hits = {} => matches = <<>>
            /\ (\A i \in 1..Len(csv_file.header) : csv_file.header[i] # column)
                  => matches = <<>>

\* a two-row file whose second row alone matches a term given in another
\* case and with a leading blank
C8_Witness ==
    /\ search_op = "search_csv"
    /\ term = <<" ", "A">>
    /\ Len(DataRows) = 2
    /\ Len(matches) = 1
    /\ RowNumber(matches[1]) = 2

\* a query item matches a row: '*' on any cell, a column name on that cell
QueryItemMatches(row, q) ==
    IF q.k = Str(Wildcard)
    THEN AnyCellIs(row, encode_search_term(q.val.s))
    ELSE CellIs(row, q.k.s, encode_search_term(q.val.s))

-----------------------------------------------------------------------------
(* Specification SpecCsv: combine_csv_files run on a folder, then run again *)

ColName == <<"a">>
ColNameVariant == <<"A", " ">>
ColCity == <<"b">>
ColNone == <<"N", "o", "n", "e">>

\* header rows: a blank first line, single columns, case/blank variants of
\* one column in two files or in one, columns some files lack
CsvHeaders ==
    {<<>>, <<ColName, ColCity>>, <<ColNameVariant, ColNone>>,
     <<ColName, ColNameVariant>>, <<ColNone>>}

\* body rows: one cell, two cells
CsvRows == {<<<<"1">>>>, <<<<"1">>, <<"2">>>>}

\* the rows of a file: none, or one of CsvRows
CsvBodies == {<<>>} \cup {<<r>> : r \in CsvRows}

\* a file no row of which can be read
Unreadable == [header |-> <<>>, rows |-> <<>>, fail |-> "header"]

\* files read to their end, files whose read raises after their rows were
\* yielded, and the unreadable file
SourceFiles ==
    [header : CsvHeaders, rows : CsvBodies, fail : {"ok"}]
    \cup [header : CsvHeaders, rows : CsvBodies \ {<<>>}, fail : {"body"}]
    \cup {Unreadable}

\* an out.csv left in the folder by an earlier run
OldOutput == [header |-> <<ColName>>, rows |-> <<<<(<<"1">>)>>>>, fail |-> "ok"]

InitCsv ==
    /\ IdleEnc
    /\ IdleAnon
    /\ IdleSearch
    /\ dir_files \in SeqsUpTo(SourceFiles, MaxFiles)
    /\ out_file \in {<<>>, <<OldOutput>>}
    /\ csv_pc = "start"
    /\ csv_files = <<>>
    /\ column_mapping = <<>>
    /\ all_data = <<>>
    /\ file_idx = 0
    /\ file_data = <<>>
    /\ added = <<>>
    /\ reported = {}
    /\ stop = ""
    /\ run = 1
    /\ out_before = out_file
    /\ prev_output = <<>>

\* lines 112-116: delete an existing output file
DeleteExisting ==
    /\ csv_pc = "start"
    /\ out_file' = (IF out_file # <<>> THEN remove_existing(out_file) ELSE out_file)
    /\ csv_pc' = "glob"
    /\ UNCHANGED <<dir_files, csv_files, column_mapping, all_data, file_idx,
                   file_data, added, reported, stop, run, out_before, prev_output>>
    /\ UNCHANGED <<encVars, anonVars, searchVars>>

\* lines 118-128: find the CSV files; return when there is none
FindFiles ==
    /\ csv_pc = "glob"
    /\ csv_files' = glob(dir_files, out_file)
    /\ IF csv_files' = <<>>
       THEN csv_pc' = "done" /\ stop' = "no_files"
       ELSE csv_pc' = "columns" /\ stop' = stop
    /\ UNCHANGED <<dir_files, out_file, column_mapping, all_data, file_idx,
                   file_data, added, reported, run, out_before, prev_output>>
    /\ UNCHANGED <<encVars, anonVars, searchVars>>

\* lines 130-144: build the column mapping; return when it is empty
AnalyzeColumns ==
    /\ csv_pc = "columns"
    /\ column_mapping' = get_unified_columns(csv_files)
    /\ IF column_mapping' = <<>>
       THEN csv_pc' = "done" /\ stop' = "no_columns"
       ELSE csv_pc' = "process" /\ stop' = stop
    /\ all_data' = <<>>
    /\ file_idx' = 1
    /\ UNCHANGED <<dir_files, out_file, csv_files, file_data, added, reported,
                   run, out_before, prev_output>>
    /\ UNCHANGED <<encVars, anonVars, searchVars>>

\* lines 146-174: one turn of the loop over csv_files
ProcessFile ==
    /\ csv_pc = "process"
    /\ file_idx <= Len(csv_files)
    /\ LET f == csv_files[file_idx]
       IN  IF f.fail = "header"
           THEN \* lines 166-168: "Error reading header", continue
                /\ file_data' = <<>>
                /\ all_data' = all_data
                /\ added' = Append(added, 0)
                /\ reported' = reported \cup {file_idx}
           ELSE \* lines 171-174
                /\ file_data' = read_csv_data(f, column_mapping)
                /\ all_data' = all_data \o file_data'
                /\ added' = Append(added, Len(file_data'))
                /\ reported' = (IF f.fail = "body" THEN reported \cup {file_idx}
                                ELSE reported)
    /\ file_idx' = file_idx + 1
    /\ UNCHANGED <<dir_files, out_file, csv_pc, csv_files, column_mapping, stop,
                   run, out_before, prev_output>>
    /\ UNCHANGED <<encVars, anonVars, searchVars>>

\* lines 176-190: return when the Dataset is empty, else write out.csv
Emit ==
    /\ csv_pc = "process"
    /\ file_idx > Len(csv_files)
    /\ IF all_data = <<>>
       THEN out_file' = out_file /\ stop' = "no_data"
       ELSE out_file' = <<write_csv(column_mapping, all_data)>> /\ stop' = "written"
    /\ csv_pc' = "done"
    /\ UNCHANGED <<dir_files, csv_files, column_mapping, all_data, file_idx,
                   file_data, added, reported, run, out_before, prev_output>>
    /\ UNCHANGED <<encVars, anonVars, searchVars>>

\* the script is started again on the same folder
RunAgain ==
    /\ csv_pc = "done"
    /\ run < MaxRuns
    /\ run' = run + 1
    /\ prev_output' = out_file
    /\ out_before' = out_file
    /\ csv_pc' = "start"
    /\ csv_files' = <<>>
    /\ column_mapping' = <<>>
    /\ all_data' = <<>>
    /\ file_idx' = 0
    /\ file_data' = <<>>
    /\ added' = <<>>
    /\ reported' = {}
    /\ stop' = ""
    /\ UNCHANGED <<dir_files, out_file>>
    /\ UNCHANGED <<encVars, anonVars, searchVars>>

NextCsv ==
    DeleteExisting \/ FindFiles \/ AnalyzeColumns \/ ProcessFile \/ Emit \/ RunAgain

SpecCsv == InitCsv /\ [][NextCsv]_vars

-----------------------------------------------------------------------------
(* Claims on the CSV Unifier, checked under SpecCsv *)

RECURSIVE HeaderCells(_)
\* the header cells of the files whose header can be read, files in
\* discovery order, cells in header order
HeaderCells(files) ==
    IF files = <<>> THEN <<>>
    ELSE (IF Head(files).fail = "header" THEN <<>> ELSE Head(files).header)
         \o HeaderCells(Tail(files))

\* the cells whose normalized key no earlier cell has, in order
FirstOccurrences(cells) ==
    LET keys == [i \in 1..Len(cells) |-> TrimLower(cells[i])]
        first == {i \in 1..Len(cells) : \A j \in 1..(i - 1) : keys[j] # keys[i]}
        RECURSIVE pick(_)
        pick(i) == IF i > Len(cells) THEN <<>>
                   ELSE (IF i \in first THEN <<cells[i]>> ELSE <<>>) \o pick(i + 1)
    IN  pick(1)

ExpectedHeader == FirstOccurrences(HeaderCells(csv_files))

MappingBuilt ==
    csv_pc = "process" \/ (csv_pc = "done" /\ stop # "no_files")

EarlyStop == csv_pc = "done" /\ stop \in {"no_files", "no_columns", "no_data"}

\* C1: the unified header is the sequence of distinct normalized keys in
\* order of first occurrence, each shown as the text of the first cell that
\* produced it; no key occurs twice and no two entries share a display name;
\* that sequence is the header written to the output.
C1_UnifiedHeader ==
    LET expected == ExpectedHeader
    IN  /\ MappingBuilt =>
              /\ unified_columns(column_mapping) = expected
              /\ \A i \in 1..Len(column_mapping) :
                    column_mapping[i].k = Str(TrimLower(expected[i]))
              /\ \A i, j \in 1..Len(column_mapping) :
                    i # j => /\ column_mapping[i].k # column_mapping[j].k
                             /\ column_mapping[i].val # column_mapping[j].val
        /\ (csv_pc = "done" /\ stop = "written") =>
              /\ Len(out_file) = 1
              /\ out_file[1].header = expected

\* two files spell one column differently, the second adds a column, and the
\* output was written under the first file's spelling
C1_Witness ==
    /\ csv_pc = "done" /\ stop = "written"
    /\ Len(csv_files) = 2
    /\ csv_files[1].header = <<ColName, ColCity>>
    /\ csv_files[2].header = <<ColNameVariant, ColNone>>
    /\ out_file[1].header = <<ColName, ColCity, ColNone>>

Max(S) == CHOOSE x \in S : \A y \in S : y <= x

\* the value the projection of a source row must hold for a canonical column
ExpectedCell(header, row, name) ==
    LET same == {i \in 1..Len(header) : TrimLower(header[i]) = TrimLower(name)}
    IN  IF same = {} THEN <<>>
        ELSE IF Max(same) <= Len(row) THEN row[Max(same)]
        ELSE <<>>

\* C2: every row appended to the Dataset has exactly the canonical display
\* names as its columns; the value of a canonical column is the source row's
\* value under the file's column of that normalized name (the last such
\* column in header order, a missing value as the empty string) and the empty
\* string when the file has no column of that normalized name.
C2_Projection ==
    (csv_pc = "process" /\ file_idx > 1 /\ csv_files[file_idx - 1].fail = "ok") =>
        LET f == csv_files[file_idx - 1]
            source == SelectSeq(f.rows, LAMBDA r : r # <<>>)
            expected == ExpectedHeader
        IN  /\ Len(file_data) = Len(source)
            /\ \A r \in 1..Len(file_data) :
                  /\ Len(file_data[r]) = Len(expected)
                  /\ \A c \in 1..Len(expected) :
                        /\ file_data[r][c].k = Str(expected[c])
                        /\ file_data[r][c].val =
                              Str(ExpectedCell(f.header, source[r], expected[c]))

RECURSIVE RowsOfReadable(_, _)
\* the projected rows of the files that are read to their end, in order
RowsOfReadable(files, mapping) ==
    IF files = <<>> THEN <<>>
    ELSE (IF Head(files).fail = "ok" THEN read_csv_data(Head(files), mapping) ELSE <<>>)
         \o RowsOfReadable(Tail(files), mapping)

\* C4: a file whose read fails in the projection phase, at whatever point,
\* contributes no rows; its error is reported; the run goes on, and the rows
\* of the other files are in the Dataset in discovery order.
C4_FailedFileSkipped ==
    MappingBuilt /\ stop # "no_columns" =>
        /\ \A i \in 1..Len(added) :
              csv_files[i].fail # "ok" => added[i] = 0 /\ i \in reported
        /\ all_data = RowsOfReadable(SubSeq(csv_files, 1, Len(added)), column_mapping)

\* C3: a second run on the unchanged folder leaves the same output file as
\* the first, although the first run's out.csv matches the input pattern.
C3_SecondRunSameOutput ==
    (run >= 2 /\ csv_pc = "done") => out_file = prev_output

\* the first run wrote out.csv from two files and the second run is over
C3_Witness ==
    /\ run = 2 /\ csv_pc = "done" /\ stop = "written"
    /\ Len(dir_files) = 2
    /\ prev_output # <<>>
    /\ Len(prev_output[1].rows) = 2

\* C9 as stated: a run that stops early leaves an existing output file as it
\* found it
C9_EarlyStopKeepsOutput ==
    EarlyStop => out_file = out_before

\* C9 as amended: the existing output file is deleted at the start of every
\* run, before the files are looked for; a run that stops early writes
\* nothing, so that no output file is left; an output file is written only
\* when the Dataset is not empty.
C9_DeletedAtStart ==
    /\ csv_pc \in {"glob", "columns", "process"} => out_file = <<>>
    /\ EarlyStop => out_file = <<>>
    /\ (csv_pc = "done" /\ stop = "written") => all_data # <<>> /\ out_file # <<>>

\* a run found an output file, read files that gave no rows, and stopped
C9_Witness ==
    /\ EarlyStop
    /\ stop = "no_data"
    /\ out_before # <<>>
    /\ out_file = <<>>

-----------------------------------------------------------------------------
(* Claims on the Value Anonymizer, checked under SpecAnon *)

\* the number of lines of a stored text: one per terminator ("\n", "\r\n" or
\* a lone "\r") and one more for an unterminated last line
NumLines(s) ==
    Cardinality({i \in 1..Len(s) :
                    \/ s[i] = "\n"
                    \/ s[i] = "\r" /\ ~(i < Len(s) /\ s[i + 1] = "\n")})
    + (IF s # <<>> /\ s[Len(s)] \notin {"\n", "\r"} THEN 1 ELSE 0)

\* a line as read, without its terminator
Content(line) ==
    IF line # <<>> /\ line[Len(line)] = "\n" THEN SubSeq(line, 1, Len(line) - 1) ELSE line

\* the lines of the output: every one of them ends in "\n"
OutputLines ==
    LET pieces == Split(written, "\n") IN SubSeq(pieces, 1, Len(pieces) - 1)

CountOf(s, c) == Cardinality({i \in 1..Len(s) : s[i] = c})

\* C5: the output has exactly as many lines as the input, in the same order;
\* output line i is empty iff input line i is empty once its terminator is
\* removed, and otherwise has as many '#'-separated fields as input line i,
\* each the full 64-character digest of the corresponding input field.
C5_LineForLine ==
    anon_pc = "done" =>
        /\ written = <<>> \/ written[Len(written)] = "\n"
        /\ Len(OutputLines) = NumLines(input_text)
        /\ Len(OutputLines) = Len(lines)
        /\ \A i \in 1..Len(lines) :
              LET inp == Content(lines[i])
                  out == OutputLines[i]
                  inFields == Split(inp, "#")
                  outFields == Split(out, "#")
              IN  /\ out = <<>> <=> inp = <<>>
                  /\ inp # <<>> =>
                        /\ Len(outFields) = CountOf(inp, "#") + 1
                        /\ \A j \in 1..Len(outFields) :
                              /\ Len(outFields[j]) = 64
                              /\ outFields[j] = sha256_hexdigest(TrimLower(inFields[j]))

\* a file with an empty line followed by a line of two fields, one of them
\* blanks only, has been processed
C5_Witness ==
    /\ anon_pc = "done"
    /\ \E i, k \in 1..Len(lines) :
          /\ i < k
          /\ Content(lines[i]) = <<>>
          /\ Content(lines[k]) = <<" ", "#">>
          /\ Len(OutputLines[k]) = 64 * 2 + 1

=============================================================================
